---- MODULE Spec2Model ----
(***************************************************************************)
(* Model of the spam detection tool of src/main.rs: the SpamClassifier     *)
(* (new, train, predict), the dataset provider (create_default_dataset,    *)
(* load_data on top of csv::ReaderBuilder) and main's startup sequence and *)
(* interactive loop.                                                       *)
(*                                                                         *)
(* Text is modelled at character level: a Rust String / &str is a sequence *)
(* of one-character strings, so lowercasing, trimming, whitespace          *)
(* splitting and CSV field splitting are computed, not assumed.            *)
(* An Option<T> / a value that may be absent is a sequence of length 0 or  *)
(* 1.                                                                      *)
(***************************************************************************)
EXTENDS Integers, Sequences, FiniteSets, TLC

VARIABLES
    pc,             \* position of main: "start","load","train","menu","msg","exit"; "lib" in the library specifications
    file,           \* emails.csv: <<>> when absent, <<text>> when present
    emails,         \* main's `emails`: Vec<(String, String)>
    classifier,     \* the SpamClassifier: spam_words, ham_words, spam_count, ham_count
    choice,         \* the line last read at the menu prompt (main's `choice`)
    input_message,  \* the line last read at the message prompt / predict's argument
    result,         \* <<>> or <<b>>: the value the last predict call returned
    out,            \* what the last step printed, as a sequence of line tags
    eof,            \* standard input has reached end of input
    exit,           \* <<>> while running, <<"ok">> / <<"err", kind>> once main returned
    trained,        \* history: every email a train call has processed, in order
    done,           \* history: the set of things main has done so far
    checks          \* history: the number of predict calls main has made

vars == <<pc, file, emails, classifier, choice, input_message, result, out,
          eof, exit, trained, done, checks>>

(***************************************************************************)
(* Bounds of the model.                                                    *)
(***************************************************************************)
\* longest generated emails.csv, in characters
MaxFileLen == 5
\* most emails the classifier specification trains on in total
MaxTrained == 3
\* most pieces a generated message is concatenated from
MaxPieces == 5
\* most predict calls of one run of main's loop
MaxChecks == 2

(***************************************************************************)
(* Characters and strings.                                                 *)
(***************************************************************************)
Str0 == <<>>

UpperChars ==
    <<"A","B","C","D","E","F","G","H","I","J","K","L","M",
      "N","O","P","Q","R","S","T","U","V","W","X","Y","Z">>

LowerChars ==
    <<"a","b","c","d","e","f","g","h","i","j","k","l","m",
      "n","o","p","q","r","s","t","u","v","w","x","y","z">>

\* char::is_whitespace, on the characters the model uses
IsWhitespace(c) == c \in {" ", "\t", "\n", "\r"}

\* char::to_lowercase on one (ASCII) character
to_lowercase_char(c) ==
    IF \E k \in 1..Len(UpperChars) : UpperChars[k] = c
    THEN LowerChars[CHOOSE k \in 1..Len(UpperChars) : UpperChars[k] = c]
    ELSE c

\* the mutant of to_lowercase that leaves the text as it is
to_lowercase_none(s) == s

\* str::to_lowercase
to_lowercase(s) == [i \in 1..Len(s) |-> to_lowercase_char(s[i])]

\* index of the first whitespace character of s, Len(s)+1 if there is none
FirstWhitespace(s) ==
    IF \E i \in 1..Len(s) : IsWhitespace(s[i])
    THEN CHOOSE i \in 1..Len(s) :
            /\ IsWhitespace(s[i])
            /\ \A j \in 1..(i-1) : ~IsWhitespace(s[j])
    ELSE Len(s) + 1

\* the mutant of split_whitespace that splits on tabs and line ends only
RECURSIVE split_no_space(_)
split_no_space(s) ==
    LET ws(c) == c \in {"\t", "\n", "\r"}
        first == IF \E i \in 1..Len(s) : ws(s[i])
                 THEN CHOOSE i \in 1..Len(s) :
                        ws(s[i]) /\ \A j \in 1..(i-1) : ~ws(s[j])
                 ELSE Len(s) + 1
    IN  IF s = Str0 THEN <<>>
        ELSE IF ws(s[1]) THEN split_no_space(Tail(s))
        ELSE <<SubSeq(s, 1, first - 1)>>
                \o split_no_space(SubSeq(s, first, Len(s)))

\* str::split_whitespace(..).collect(): the maximal runs of non-whitespace
RECURSIVE split_whitespace(_)
split_whitespace(s) ==
    IF s = Str0 THEN <<>>
    ELSE IF IsWhitespace(s[1]) THEN split_whitespace(Tail(s))
    ELSE LET n == FirstWhitespace(s)
         IN  <<SubSeq(s, 1, n - 1)>> \o split_whitespace(SubSeq(s, n, Len(s)))

\* str::trim: drop leading and trailing whitespace
trim(s) ==
    IF \A i \in 1..Len(s) : IsWhitespace(s[i]) THEN Str0
    ELSE LET a == CHOOSE i \in 1..Len(s) :
                    ~IsWhitespace(s[i]) /\ \A j \in 1..(i-1) : IsWhitespace(s[j])
             b == CHOOSE i \in 1..Len(s) :
                    ~IsWhitespace(s[i]) /\ \A j \in (i+1)..Len(s) : IsWhitespace(s[j])
         IN  SubSeq(s, a, b)

(***************************************************************************)
(* SpamClassifier.                                                         *)
(***************************************************************************)
\* the literal "spam" train compares labels with
SpamLabel == <<"s","p","a","m">>

\* the literal "ham" load_data defaults a missing label to
HamLabel == <<"h","a","m">>

\* SpamClassifier::new
new ==
    [spam_words |-> <<>>, ham_words |-> <<>>, spam_count |-> 0, ham_count |-> 0]

\* the words of one email or message: to_lowercase().split_whitespace().collect()
words_of(content) == split_whitespace(to_lowercase(content))

\* the mutant of the label test that ignores the label's letter case
is_spam_label_nocase(label) == to_lowercase(label) = SpamLabel

\* train's test `label == "spam"`
is_spam_label(label) == label = SpamLabel

\* one iteration of train's loop, on the email (label, content)
train_one(self, email) ==
    LET words == words_of(email[2])
    IN  IF is_spam_label(email[1])
        THEN [self EXCEPT !.spam_words = @ \o words, !.spam_count = @ + 1]
        ELSE [self EXCEPT !.ham_words = @ \o words, !.ham_count = @ + 1]

\* SpamClassifier::train: the loop over the emails, in order
RECURSIVE train(_, _)
train(self, es) ==
    IF es = <<>> THEN self ELSE train(train_one(self, Head(es)), Tail(es))

\* predict's array spam_indicators
spam_indicators ==
    << <<"f","r","e","e">>,
       <<"w","i","n">>,
       <<"u","r","g","e","n","t">>,
       <<"l","o","t","t","e","r","y">>,
       <<"c","l","i","c","k"," ","h","e","r","e">>,
       <<"l","i","m","i","t","e","d"," ","o","f","f","e","r">>,
       <<"$","$","$">>,
       <<"w","i","n","n","e","r">>,
       <<"p","r","i","z","e">>,
       <<"c","o","n","g","r","a","t","u","l","a","t","i","o","n","s">> >>

\* spam_indicators.contains(word), for an array of indicators
contains(indicators, word) == \E i \in 1..Len(indicators) : indicators[i] = word

\* predict's message_words
message_words(message) == words_of(message)

\* message_words.iter().filter(|word| indicators.contains(word)).count()
spam_word_matches(indicators, message) ==
    LET hit(word) == contains(indicators, word)
    IN  Len(SelectSeq(message_words(message), hit))

\* the mutant of the threshold test that already fires at 2 matches
threshold_ge(n) == n >= 2

\* predict's final test `spam_word_matches > 2`
threshold(n) == n > 2

\* the mutant of predict that also counts the words training has put in spam_words
predict_trained(self, message) ==
    LET hit(word) == contains(spam_indicators, word) \/ contains(self.spam_words, word)
    IN  threshold(Len(SelectSeq(message_words(message), hit)))

\* SpamClassifier::predict
predict(self, message) == threshold(spam_word_matches(spam_indicators, message))

(***************************************************************************)
(* Dataset provider.                                                       *)
(***************************************************************************)
\* s split at every occurrence of the character sep (empty pieces kept)
RECURSIVE SplitOn(_, _)
SplitOn(s, sep) ==
    IF \E i \in 1..Len(s) : s[i] = sep
    THEN LET n == CHOOSE i \in 1..Len(s) :
                    s[i] = sep /\ \A j \in 1..(i-1) : s[j] # sep
         IN  <<SubSeq(s, 1, n - 1)>> \o SplitOn(SubSeq(s, n + 1, Len(s)), sep)
    ELSE <<s>>

\* the records the csv reader finds in a text without quotes: one per
\* non-empty line (empty lines are skipped), each split at the commas
csv_records(text) ==
    LET nonempty(line) == line # Str0
        lines == SelectSeq(SplitOn(text, "\n"), nonempty)
    IN  [i \in 1..Len(lines) |-> SplitOn(lines[i], ",")]

\* StringRecord::get(i).unwrap_or(default), i counted from 0
get_or(record, i, default) ==
    IF i + 1 <= Len(record) THEN record[i + 1] ELSE default

\* the reader built by ReaderBuilder::new().has_headers(true): flexible is
\* left at its default, false, so a record whose number of fields differs
\* from the first record's (the header's) is an error
unequal_lengths(records) ==
    \E i \in 2..Len(records) : Len(records[i]) # Len(records[1])

\* load_data: f is the file (<<>> or <<text>>), can_open whether it opens
load_data(f, can_open) ==
    IF f = <<>> \/ ~can_open
    THEN [ok |-> FALSE, kind |-> "open", emails |-> <<>>]
    ELSE LET records == csv_records(f[1])
         IN  IF unequal_lengths(records)
             THEN [ok |-> FALSE, kind |-> "csv", emails |-> <<>>]
             ELSE [ok |-> TRUE, kind |-> "none",
                   emails |-> [i \in 1..(Len(records) - 1) |->
                                 <<get_or(records[i + 1], 0, HamLabel),
                                   get_or(records[i + 1], 1, Str0)>>]]

default_data_00 ==
    <<"l","a","b","e","l",",","c","o","n","t","e","n","t","\n">>
default_data_01 ==
    <<"s","p","a","m",",","C","o","n","g","r","a","t","u","l","a","t","i","o","n","s","!"," ","Y","o","u","'","v","e"," ","w","o","n"," ","a"," ","f","r","e","e"," ","i","P","h","o","n","e","!"," ","C","l","i","c","k"," ","h","e","r","e"," ","t","o"," ","c","l","a","i","m"," ","n","o","w","!","!","!","\n">>
default_data_02 ==
    <<"h","a","m",",","H","i"," ","J","o","h","n",","," ","c","a","n"," ","w","e"," ","s","c","h","e","d","u","l","e"," ","a"," ","m","e","e","t","i","n","g"," ","t","o"," ","d","i","s","c","u","s","s"," ","t","h","e"," ","p","r","o","j","e","c","t"," ","n","e","x","t"," ","w","e","e","k","?","\n">>
default_data_03 ==
    <<"s","p","a","m",",","U","R","G","E","N","T",":"," ","Y","o","u","'","v","e"," ","b","e","e","n"," ","s","e","l","e","c","t","e","d"," ","f","o","r"," ","a","n"," ","e","x","c","l","u","s","i","v","e"," ","l","o","t","t","e","r","y","."," ","C","l","a","i","m"," ","y","o","u","r"," ","$","1","0",",","0","0","0"," ","p","r","i","z","e"," ","N","O","W","!","\n">>
default_data_04 ==
    <<"h","a","m",",","P","l","e","a","s","e"," ","f","i","n","d"," ","a","t","t","a","c","h","e","d"," ","t","h","e"," ","q","u","a","r","t","e","r","l","y"," ","r","e","p","o","r","t"," ","f","o","r"," ","y","o","u","r"," ","r","e","v","i","e","w",".","\n">>
default_data_05 ==
    <<"s","p","a","m",",","G","E","T"," ","R","I","C","H"," ","Q","U","I","C","K","!"," ","M","a","k","e"," ","$","5","0","0","0"," ","p","e","r"," ","w","e","e","k"," ","w","o","r","k","i","n","g"," ","f","r","o","m"," ","h","o","m","e","."," ","N","o"," ","e","x","p","e","r","i","e","n","c","e"," ","n","e","e","d","e","d","!","\n">>
default_data_06 ==
    <<"h","a","m",",","M","e","e","t","i","n","g"," ","m","i","n","u","t","e","s"," ","f","r","o","m"," ","t","o","d","a","y","'","s"," ","t","e","a","m"," ","d","i","s","c","u","s","s","i","o","n"," ","a","r","e"," ","a","t","t","a","c","h","e","d",".","\n">>
default_data_07 ==
    <<"s","p","a","m",",","L","i","m","i","t","e","d"," ","t","i","m","e"," ","o","f","f","e","r","!"," ","9","0","%"," ","O","F","F"," ","a","l","l"," ","p","r","o","d","u","c","t","s","."," ","B","u","y"," ","n","o","w"," ","b","e","f","o","r","e"," ","i","t","'","s"," ","g","o","n","e","!","\n">>
default_data_08 ==
    <<"h","a","m",",","C","o","u","l","d"," ","y","o","u"," ","p","l","e","a","s","e"," ","s","e","n","d"," ","m","e"," ","t","h","e"," ","u","p","d","a","t","e","d"," ","c","l","i","e","n","t"," ","c","o","n","t","a","c","t"," ","l","i","s","t","?","\n">>
default_data_09 ==
    <<"s","p","a","m",",","Y","o","u"," ","a","r","e"," ","t","h","e"," ","W","I","N","N","E","R"," ","o","f"," ","o","u","r"," ","m","e","g","a"," ","s","w","e","e","p","s","t","a","k","e","s","!"," ","C","l","a","i","m"," ","y","o","u","r"," ","p","r","i","z","e"," ","i","m","m","e","d","i","a","t","e","l","y","!","\n">>
default_data_10 ==
    <<"h","a","m",",","T","h","a","n","k"," ","y","o","u"," ","f","o","r"," ","y","o","u","r"," ","r","e","c","e","n","t"," ","o","r","d","e","r","."," ","Y","o","u","r"," ","p","a","c","k","a","g","e"," ","w","i","l","l"," ","b","e"," ","s","h","i","p","p","e","d"," ","s","o","o","n",".","\n">>
default_data_11 ==
    <<"s","p","a","m",",","F","R","E","E"," ","V","I","A","G","R","A","!"," ","L","o","w","e","s","t"," ","p","r","i","c","e","s"," ","g","u","a","r","a","n","t","e","e","d","."," ","B","u","y"," ","n","o","w","!","\n">>
default_data_12 ==
    <<"h","a","m",",","P","l","e","a","s","e"," ","c","o","n","f","i","r","m"," ","y","o","u","r"," ","a","t","t","e","n","d","a","n","c","e"," ","f","o","r"," ","t","h","e"," ","u","p","c","o","m","i","n","g"," ","c","o","n","f","e","r","e","n","c","e",".","\n">>
default_data_13 ==
    <<"s","p","a","m",",","M","a","k","e"," ","m","i","l","l","i","o","n","s"," ","f","r","o","m"," ","h","o","m","e","!"," ","O","u","r"," ","p","r","o","v","e","n"," ","s","y","s","t","e","m"," ","g","u","a","r","a","n","t","e","e","s"," ","s","u","c","c","e","s","s","!","!","!","\n">>
default_data_14 ==
    <<"h","a","m",",","Y","o","u","r"," ","m","o","n","t","h","l","y"," ","b","a","n","k"," ","s","t","a","t","e","m","e","n","t"," ","i","s"," ","n","o","w"," ","a","v","a","i","l","a","b","l","e"," ","f","o","r"," ","r","e","v","i","e","w",".","\n">>
default_data_15 ==
    <<"s","p","a","m",",","A","T","T","E","N","T","I","O","N",":"," ","Y","o","u","r"," ","c","o","m","p","u","t","e","r"," ","i","s"," ","i","n","f","e","c","t","e","d","."," ","C","l","i","c","k"," ","h","e","r","e"," ","t","o"," ","f","i","x"," ","i","m","m","e","d","i","a","t","e","l","y","!","\n">>
default_data_16 ==
    <<"h","a","m",",","D","r","a","f","t"," ","p","r","o","p","o","s","a","l"," ","f","o","r"," ","t","h","e"," ","n","e","w"," ","m","a","r","k","e","t","i","n","g"," ","s","t","r","a","t","e","g","y"," ","i","s"," ","r","e","a","d","y"," ","f","o","r"," ","y","o","u","r"," ","f","e","e","d","b","a","c","k",".","\n">>
default_data_17 ==
    <<"s","p","a","m",",","E","x","c","l","u","s","i","v","e"," ","o","f","f","e","r",":"," ","B","e","c","o","m","e"," ","a"," ","m","i","l","l","i","o","n","a","i","r","e"," ","o","v","e","r","n","i","g","h","t","!"," ","N","o"," ","i","n","v","e","s","t","m","e","n","t"," ","r","e","q","u","i","r","e","d","!","\n">>
default_data_18 ==
    <<"h","a","m",",","R","e","m","i","n","d","e","r",":"," ","P","e","r","f","o","r","m","a","n","c","e"," ","r","e","v","i","e","w"," ","m","e","e","t","i","n","g","s"," ","a","r","e"," ","s","c","h","e","d","u","l","e","d"," ","f","o","r"," ","n","e","x","t"," ","w","e","e","k",".","\n">>
default_data_19 ==
    <<"s","p","a","m",",","W","I","N"," ","B","I","G","!"," ","M","e","g","a"," ","c","a","s","i","n","o"," ","b","o","n","u","s"," ","w","a","i","t","i","n","g"," ","f","o","r"," ","y","o","u","."," ","N","o"," ","d","e","p","o","s","i","t"," ","n","e","e","d","e","d","!","\n">>
default_data_20 ==
    <<"h","a","m",",","I","n","v","o","i","c","e"," ","#","1","2","3","4"," ","f","o","r"," ","s","e","r","v","i","c","e","s"," ","r","e","n","d","e","r","e","d"," ","i","s"," ","a","t","t","a","c","h","e","d"," ","f","o","r"," ","y","o","u","r"," ","r","e","c","o","r","d","s",".","\n">>
default_data ==
    default_data_00
    \o default_data_01
    \o default_data_02
    \o default_data_03
    \o default_data_04
    \o default_data_05
    \o default_data_06
    \o default_data_07
    \o default_data_08
    \o default_data_09
    \o default_data_10
    \o default_data_11
    \o default_data_12
    \o default_data_13
    \o default_data_14
    \o default_data_15
    \o default_data_16
    \o default_data_17
    \o default_data_18
    \o default_data_19
    \o default_data_20

(***************************************************************************)
(* Inputs the model draws from.                                            *)
(***************************************************************************)
\* all sequences over S of length at most n
RECURSIVE SeqsUpTo(_, _)
SeqsUpTo(S, n) ==
    IF n = 0 THEN {<<>>}
    ELSE LET shorter == SeqsUpTo(S, n - 1)
         IN  shorter \cup {s \o <<x>> : s \in shorter, x \in S}

\* all concatenations of at most n of the pieces P
RECURSIVE Concats(_, _)
Concats(P, n) ==
    IF n = 0 THEN {Str0}
    ELSE LET shorter == Concats(P, n - 1)
         IN  shorter \cup {s \o p : s \in shorter, p \in P}

\* the characters generated CSV files are made of
CsvChars == {"a", ",", "\n"}

\* a hand-written dataset whose rows all have two fields:
\*   label,content / spam,WIN  Free $$$ / Spam,win / ham, / ,free
TwoColumnFile ==
    <<"l","a","b","e","l",",","c","o","n","t","e","n","t","\n">>
    \o <<"s","p","a","m",",","W","I","N"," "," ","F","r","e","e"," ","$","$","$","\n">>
    \o <<"S","p","a","m",",","w","i","n","\n">>
    \o <<"h","a","m",",","\n">>
    \o <<",","f","r","e","e","\n">>

\* the texts emails.csv may hold when main starts
DataFiles ==
    SeqsUpTo(CsvChars, MaxFileLen) \cup {TwoColumnFile, default_data}

\* lines typed at the menu prompt: 1, 2 (padded), 2 without line end, 3, 12, empty
MenuLines ==
    { <<"1","\n">>, <<" ","2"," ","\n">>, <<"2">>, <<"3","\n">>,
      <<"1","2","\n">>, <<"\n">> }

\* lines typed at the message prompt
MessageLines ==
    { <<"F","R","E","E"," ","W","I","N"," ","U","R","G","E","N","T"," ",
        "L","O","T","T","E","R","Y","\n">>,
      <<"f","r","e","e"," ","w","i","n","\n">>,
      <<"\n">> }

\* std::io::stdin().read_line: the outcomes of one call, given the lines
\* that may be typed; at end of input it returns Ok(0) and appends nothing
read_line(lines, at_eof) ==
    {[ok |-> FALSE, line |-> Str0, eof |-> at_eof]}
    \cup {[ok |-> TRUE, line |-> Str0, eof |-> TRUE]}
    \cup (IF at_eof THEN {}
          ELSE {[ok |-> TRUE, line |-> l, eof |-> FALSE] : l \in lines})

(***************************************************************************)
(* main.                                                                   *)
(***************************************************************************)
\* the patterns "1" and "2" of `match choice.trim()`
Choice1 == <<"1">>
Choice2 == <<"2">>

\* the mutant of the match that also leaves the loop on an empty line
menu_arm_break_on_empty(c) ==
    IF c = Choice1 THEN "check"
    ELSE IF c = Choice2 \/ c = Str0 THEN "break"
    ELSE "invalid"

\* the mutant of the match with the two arms exchanged
menu_arm_swapped(c) ==
    IF c = Choice1 THEN "break"
    ELSE IF c = Choice2 THEN "check"
    ELSE "invalid"

\* `match choice.trim()`: the arm taken for the trimmed choice c
menu_arm(c) ==
    IF c = Choice1 THEN "check"
    ELSE IF c = Choice2 THEN "break"
    ELSE "invalid"

Init ==
    /\ pc = "start"
    /\ file \in {<<>>} \cup {<<t>> : t \in DataFiles}
    /\ emails = <<>>
    /\ classifier = new
    /\ choice = Str0
    /\ input_message = Str0
    /\ result = <<>>
    /\ out = <<>>
    /\ eof = FALSE
    /\ exit = <<>>
    /\ trained = <<>>
    /\ done = {}
    /\ checks = 0

\* main returns Err(kind)
Fail(kind) ==
    /\ pc' = "exit"
    /\ exit' = <<"err", kind>>

\* if !Path::new(file_path).exists() { create_default_dataset(file_path)?; }
\* fs::write may fail; when it succeeds the file holds default_data
EnsureDataset ==
    /\ pc = "start"
    /\ IF file # <<>>
       THEN /\ pc' = "load"
            /\ UNCHANGED <<file, out, exit, done>>
       ELSE \E write_ok \in BOOLEAN :
              IF write_ok
              THEN /\ file' = <<default_data>>
                   /\ out' = <<"created">>
                   /\ done' = done \cup {"write"}
                   /\ pc' = "load"
                   /\ UNCHANGED exit
              ELSE /\ Fail("write")
                   /\ UNCHANGED <<file, out, done>>
    /\ UNCHANGED <<emails, classifier, choice, input_message, result, eof,
                   trained, checks>>

\* the mutant of the load step that goes on with no emails when load_data fails
LoadData_ignore_error ==
    /\ pc = "load"
    /\ \E can_open \in BOOLEAN :
          emails' = load_data(file, can_open).emails
    /\ pc' = "train"
    /\ done' = done \cup {"load"}
    /\ UNCHANGED <<file, classifier, choice, input_message, result, out, eof,
                   exit, trained, checks>>

\* let emails = load_data(file_path)?;
LoadData ==
    /\ pc = "load"
    /\ \E can_open \in BOOLEAN :
          LET r == load_data(file, can_open)
          IN  IF r.ok
              THEN /\ emails' = r.emails
                   /\ pc' = "train"
                   /\ UNCHANGED exit
              ELSE /\ Fail(r.kind)
                   /\ UNCHANGED emails
    /\ done' = done \cup {"load"}
    /\ UNCHANGED <<file, classifier, choice, input_message, result, out, eof,
                   trained, checks>>

\* let mut classifier = SpamClassifier::new(); classifier.train(&emails);
Train ==
    /\ pc = "train"
    /\ classifier' = train(new, emails)
    /\ trained' = trained \o emails
    /\ done' = done \cup {"train"}
    /\ pc' = "menu"
    /\ UNCHANGED <<file, emails, choice, input_message, result, out, eof,
                   exit, checks>>

\* the top of one loop iteration: print the menu, read the choice, match it
ReadChoice ==
    /\ pc = "menu"
    /\ \E r \in read_line(MenuLines, eof) :
          /\ eof' = r.eof
          /\ IF ~r.ok
             THEN /\ Fail("stdin")
                  /\ out' = <<"menu">>
                  /\ UNCHANGED choice
             ELSE /\ choice' = r.line
                  /\ CASE menu_arm(trim(r.line)) = "check" ->
                            /\ pc' = "msg"
                            /\ out' = <<"menu", "prompt">>
                            /\ UNCHANGED exit
                       [] menu_arm(trim(r.line)) = "break" ->
                            /\ pc' = "exit"
                            /\ exit' = <<"ok">>
                            /\ out' = <<"menu">>
                       [] OTHER ->
                            /\ pc' = "menu"
                            /\ out' = <<"menu", "invalid">>
                            /\ UNCHANGED exit
    /\ done' = done \cup {"menu", "read"}
    /\ UNCHANGED <<file, emails, classifier, input_message, result, trained,
                   checks>>

\* the "1" arm: read the message, predict on it trimmed, print the verdict
ReadMessage ==
    /\ pc = "msg"
    /\ checks < MaxChecks
    /\ \E r \in read_line(MessageLines, eof) :
          /\ eof' = r.eof
          /\ IF ~r.ok
             THEN /\ Fail("stdin")
                  /\ out' = <<>>
                  /\ UNCHANGED <<input_message, result, checks>>
             ELSE /\ input_message' = r.line
                  /\ result' = <<predict(classifier, trim(r.line))>>
                  /\ checks' = checks + 1
                  /\ out' = <<IF predict(classifier, trim(r.line))
                              THEN "spam" ELSE "nospam">>
                  /\ pc' = "menu"
                  /\ UNCHANGED exit
    /\ UNCHANGED <<file, emails, classifier, choice, trained, done>>

Next ==
    \/ EnsureDataset
    \/ LoadData
    \/ Train
    \/ ReadChoice
    \/ ReadMessage

Spec == Init /\ [][Next]_vars

(***************************************************************************)
(* The classifier as a library: any sequence of train and predict calls.   *)
(***************************************************************************)
\* the emails train is called with: labels spam, Spam, " spam", "" and SPAM
SampleEmails ==
    { << SpamLabel, <<"x"," "," ","X","\t","x">> >>,
      << <<"S","p","a","m">>, <<"w","i","n">> >>,
      << <<" ","s","p","a","m">>, <<" ","\t">> >>,
      << Str0, Str0 >>,
      << <<"S","P","A","M">>, <<"F","r","e","e">> >> }

\* the messages predict is called with in the classifier specification
SampleMessages ==
    { <<"x"," ","x"," ","x">>,
      <<"w","i","n"," ","F","R","E","E"," ","w","i","n">>,
      <<"f","r","e","e"," ","w","i","n">>,
      Str0 }

InitClassifier ==
    /\ pc = "lib"
    /\ file = <<>>
    /\ emails = <<>>
    /\ classifier = new
    /\ choice = Str0
    /\ input_message = Str0
    /\ result = <<>>
    /\ out = <<>>
    /\ eof = FALSE
    /\ exit = <<>>
    /\ trained = <<>>
    /\ done = {}
    /\ checks = 0

\* classifier.train(&es)
CallTrain ==
    \E es \in SeqsUpTo(SampleEmails, MaxTrained) :
        /\ Len(trained) + Len(es) <= MaxTrained
        /\ classifier' = train(classifier, es)
        /\ trained' = trained \o es
        /\ UNCHANGED <<pc, file, emails, choice, input_message, result, out,
                       eof, exit, done, checks>>

\* classifier.predict(m): takes &self, so the classifier is left as it is
CallPredict ==
    \E m \in SampleMessages :
        /\ input_message' = m
        /\ result' = <<predict(classifier, m)>>
        /\ UNCHANGED <<pc, file, emails, classifier, choice, out, eof, exit,
                       trained, done, checks>>

NextClassifier ==
    \/ CallTrain
    \/ CallPredict

SpecClassifier == InitClassifier /\ [][NextClassifier]_vars

(***************************************************************************)
(* predict on generated messages, on a classifier that was never trained.  *)
(***************************************************************************)
\* the pieces generated messages are concatenated from
Pieces ==
    { <<"w","i","n">>, <<"W","I","N">>, <<"F","r","e","e">>,
      <<"c","l","i","c","k">>, <<"h","e","r","e">>, <<" ">> }

\* "click here for your limited offer"
ScenarioClickHere ==
    <<"c","l","i","c","k"," ","h","e","r","e"," ","f","o","r"," ",
      "y","o","u","r"," ","l","i","m","i","t","e","d"," ","o","f","f","e","r">>

\* "FREE WIN URGENT LOTTERY"
ScenarioUpper ==
    <<"F","R","E","E"," ","W","I","N"," ","U","R","G","E","N","T"," ",
      "L","O","T","T","E","R","Y">>

\* further fixed messages: tabs and line ends between words, $$$, prize
Scenarios ==
    { ScenarioClickHere, ScenarioUpper,
      <<"$","$","$","\t","P","r","i","z","e","\n","w","i","n","n","e","r">>,
      <<"L","i","m","i","t","e","d"," ","O","f","f","e","r","\t",
        "C","l","i","c","k"," ","H","e","r","e">> }

\* the messages predict is called with in the predict specification
Messages == Concats(Pieces, MaxPieces) \cup Scenarios

InitPredict ==
    /\ pc = "lib"
    /\ file = <<>>
    /\ emails = <<>>
    /\ classifier = new
    /\ choice = Str0
    /\ input_message \in Messages
    /\ result = <<>>
    /\ out = <<>>
    /\ eof = FALSE
    /\ exit = <<>>
    /\ trained = <<>>
    /\ done = {}
    /\ checks = 0

\* let result = classifier.predict(input_message)
PredictMessage ==
    /\ result = <<>>
    /\ result' = <<predict(classifier, input_message)>>
    /\ UNCHANGED <<pc, file, emails, classifier, choice, input_message, out,
                   eof, exit, trained, done, checks>>

NextPredict == PredictMessage

SpecPredict == InitPredict /\ [][NextPredict]_vars

(***************************************************************************)
(* Reference definitions the properties are stated with.  They describe    *)
(* tokens, letter case and counts directly, not the way the code computes  *)
(* them.                                                                   *)
(***************************************************************************)
\* the letters, as (upper case, lower case) pairs
CasePairs == {<<UpperChars[k], LowerChars[k]>> : k \in 1..Len(UpperChars)}

Blank(c) == c \in {" ", "\t", "\n", "\r"}

\* s with every upper case letter replaced by its lower case letter
Lowered(s) ==
    [i \in 1..Len(s) |->
        IF \E p \in CasePairs : p[1] = s[i]
        THEN (CHOOSE p \in CasePairs : p[1] = s[i])[2]
        ELSE s[i]]

\* s with every lower case letter replaced by its upper case letter
Uppered(s) ==
    [i \in 1..Len(s) |->
        IF \E p \in CasePairs : p[2] = s[i]
        THEN (CHOOSE p \in CasePairs : p[2] = s[i])[1]
        ELSE s[i]]

\* s with the case of the letter at position i changed
Toggled(s, i) ==
    [s EXCEPT ![i] = IF Lowered(<<@>>) # <<@>> THEN Lowered(<<@>>)[1]
                     ELSE Uppered(<<@>>)[1]]

\* the positions where a token of s starts
TokenStarts(s) ==
    {i \in 1..Len(s) : ~Blank(s[i]) /\ (i = 1 \/ Blank(s[i - 1]))}

\* the token of s that starts at position i
TokenAt(s, i) ==
    LET j == CHOOSE j \in i..Len(s) :
                /\ j = Len(s) \/ Blank(s[j + 1])
                /\ \A k \in i..j : ~Blank(s[k])
    IN  SubSeq(s, i, j)

\* the tokens of s, in order
RECURSIVE TokensFrom(_, _)
TokensFrom(s, i) ==
    IF i > Len(s) THEN <<>>
    ELSE IF i \in TokenStarts(s) THEN <<TokenAt(s, i)>> \o TokensFrom(s, i + 1)
    ELSE TokensFrom(s, i + 1)

Tokens(s) == TokensFrom(s, 1)

\* the indicator strings, as a set
IndicatorSet == {spam_indicators[k] : k \in 1..Len(spam_indicators)}

\* the indicators that hold no whitespace (all but "click here", "limited offer")
SingleWordIndicators ==
    LET single(w) == \A i \in 1..Len(w) : ~Blank(w[i])
    IN  SelectSeq(spam_indicators, single)

\* the number of tokens of the lowered message that are indicator strings,
\* each occurrence counted
MatchingTokens(s) ==
    Cardinality({i \in TokenStarts(s) : Lowered(TokenAt(s, i)) \in IndicatorSet})

\* concatenation of a sequence of sequences
RECURSIVE Flatten(_)
Flatten(ss) == IF ss = <<>> THEN <<>> ELSE Head(ss) \o Flatten(Tail(ss))

\* the lowered tokens of the emails of es that satisfy keep, in order
WordsOfEmails(es, keep(_)) ==
    LET kept == SelectSeq(es, keep)
    IN  Flatten([i \in 1..Len(kept) |-> Tokens(Lowered(kept[i][2]))])

\* the data rows of the file: its non-empty lines after the first, as fields
DataRows(text) ==
    LET records == csv_records(text)
    IN  [i \in 1..(Len(records) - 1) |-> records[i + 1]]

(***************************************************************************)
(* Properties.                                                             *)
(***************************************************************************)

\* C1: when create_default_dataset has written emails.csv and load_data has
\* read it (the file could be opened), load_data succeeded and returned 20
\* records, alternately labelled spam and ham, starting with spam.
C1_DefaultRoundTrip ==
    ("write" \in done /\ "load" \in done /\ exit # <<"err", "open">>) =>
        /\ exit # <<"err", "csv">>
        /\ Len(emails) = 20
        /\ \A i \in 1..Len(emails) :
              emails[i][1] = IF i % 2 = 1 THEN SpamLabel ELSE HamLabel

\* C2: once load_data has read a file it could open, it did not fail, and
\* every data row, whatever its number of fields, gave one record: field 0
\* (or "ham") and field 1 (or "").
C2_LenientRows ==
    ("load" \in done /\ file # <<>> /\ exit # <<"err", "open">>) =>
        /\ exit # <<"err", "csv">>
        /\ Len(emails) = Len(DataRows(file[1]))
        /\ \A i \in 1..Len(emails) :
              LET row == DataRows(file[1])[i]
              IN  emails[i] = << IF Len(row) >= 1 THEN row[1] ELSE HamLabel,
                                 IF Len(row) >= 2 THEN row[2] ELSE Str0 >>

\* C3: predict returns true exactly when more than 2 tokens of the lowered
\* message are indicator strings, repeats counted.
C3_PredictThreshold ==
    result # <<>> => result[1] = (MatchingTokens(input_message) > 2)

\* a message with exactly 3 matching tokens, one of them repeated, was judged spam
C3_Witness ==
    /\ result = <<TRUE>>
    /\ MatchingTokens(input_message) = 3
    /\ Cardinality({Lowered(TokenAt(input_message, i)) :
                        i \in TokenStarts(input_message)}) < 3

\* C4: whatever the classifier has been trained on, predict returns what a
\* classifier that was never trained returns, and a predict call leaves
\* spam_words, ham_words, spam_count and ham_count as they were.
C4_PredictIgnoresTraining ==
    /\ [](/\ \A m \in SampleMessages : predict(classifier, m) = predict(new, m)
          /\ result # <<>> => result[1] = predict(new, input_message))
    /\ [][(result' # result \/ input_message' # input_message)
            => classifier' = classifier]_vars

\* predict was called on a classifier trained with spam and with ham words
C4_Witness ==
    /\ classifier.spam_words # <<>>
    /\ classifier.ham_words # <<>>
    /\ result # <<>>
    /\ input_message # Str0

\* C5: no token holds a whitespace character, so "click here" and
\* "limited offer" never count: the match count is the one the indicators
\* without these two give, and "click here for your limited offer" has 0
\* matches and is not spam.
C5_MultiWordIndicatorsDead ==
    /\ LET words == message_words(input_message)
       IN  \A i \in 1..Len(words) :
              \A k \in 1..Len(words[i]) : ~Blank(words[i][k])
    /\ spam_word_matches(spam_indicators, input_message)
          = spam_word_matches(SingleWordIndicators, input_message)
    /\ (result # <<>> /\ input_message = ScenarioClickHere) =>
          /\ spam_word_matches(spam_indicators, input_message) = 0
          /\ result = <<FALSE>>

\* predict was called on "click here for your limited offer"
C5_Witness ==
    /\ result # <<>>
    /\ input_message = ScenarioClickHere
    /\ Len(SingleWordIndicators) = Len(spam_indicators) - 2

\* C6: predict gives the same result on a message, on the message in lower
\* case, on it in upper case and on it with the case of any one letter
\* changed; FREE, Free and free each count as one match.
C6_CaseInsensitive ==
    /\ result # <<>> =>
          /\ result[1] = predict(classifier, Lowered(input_message))
          /\ result[1] = predict(classifier, Uppered(input_message))
          /\ \A i \in 1..Len(input_message) :
                result[1] = predict(classifier, Toggled(input_message, i))
    /\ \A w \in { <<"F","R","E","E">>, <<"F","r","e","e">>, <<"f","r","e","e">> } :
          spam_word_matches(spam_indicators, w) = 1

\* a message in mixed case was judged spam
C6_Witness ==
    /\ result = <<TRUE>>
    /\ input_message # Lowered(input_message)
    /\ input_message # Uppered(input_message)

\* C7: a step that reads a menu line without a read error: trimmed "2" ends
\* the loop with success; trimmed "1" goes on to read the message; any
\* other line prints the invalid-choice line, calls predict no times and
\* returns to the menu.  A step that reads the message without a read error
\* consumes that one line, calls predict once, prints the verdict predict
\* gives and returns to the menu.
C7_MenuDispatch ==
    [][/\ (pc = "menu" /\ exit' # <<"err", "stdin">>) =>
            /\ checks' = checks
            /\ result' = result
            /\ out'[1] = "menu"
            /\ IF trim(choice') = <<"2">>
               THEN pc' = "exit" /\ exit' = <<"ok">> /\ out' = <<"menu">>
               ELSE IF trim(choice') = <<"1">>
               THEN pc' = "msg" /\ exit' = <<>> /\ out' = <<"menu", "prompt">>
               ELSE pc' = "menu" /\ exit' = <<>> /\ out' = <<"menu", "invalid">>
       /\ (pc = "msg" /\ exit' # <<"err", "stdin">>) =>
            /\ checks' = checks + 1
            /\ pc' = "menu"
            /\ exit' = <<>>
            /\ choice' = choice
            /\ out' = <<IF MatchingTokens(input_message') > 2
                        THEN "spam" ELSE "nospam">>
            /\ result' = <<MatchingTokens(input_message') > 2>>
      ]_vars

\* after a message was judged spam, an invalid choice was answered
C7_Witness ==
    /\ checks >= 1
    /\ result = <<TRUE>>
    /\ pc = "menu"
    /\ out = <<"menu", "invalid">>
    /\ trim(choice) \notin {<<"1">>, <<"2">>}

\* C8: startup is ensure-dataset, load, train, menu.  An existing emails.csv
\* is never written; a failed write or load makes main return that error
\* with nothing trained, no menu printed and no input read; the menu is
\* reached only after the file exists and was loaded and trained on.
C8_StartupFatal ==
    /\ [](/\ (Len(exit) = 2 /\ exit[2] \in {"write", "open", "csv"}) =>
                /\ pc = "exit"
                /\ done \cap {"train", "menu", "read"} = {}
                /\ classifier = new /\ trained = <<>> /\ checks = 0
                /\ "menu" \notin {out[i] : i \in 1..Len(out)}
          /\ "menu" \in done =>
                /\ {"load", "train"} \subseteq done
                /\ load_data(file, TRUE).ok
                /\ emails = load_data(file, TRUE).emails
                /\ classifier = train(new, emails)
          /\ "train" \in done => "load" \in done
          /\ "write" \in done => file = <<default_data>>)
    /\ [][/\ file # <<>> => file' = file
          /\ (pc = "start" /\ pc' # "exit") => pc' = "load"
          /\ (pc = "load" /\ pc' # "exit") => pc' = "train"
          /\ pc = "train" => pc' = "menu"
          /\ (pc = "load" /\ ~load_data(file, TRUE).ok) =>
                pc' = "exit" /\ exit' \in {<<"err", "open">>, <<"err", "csv">>}
          /\ (pc = "start" /\ pc' = "exit") =>
                file = <<>> /\ exit' = <<"err", "write">>
         ]_vars

\* main returned the CSV error of load_data
C8_Witness ==
    /\ pc = "exit"
    /\ exit = <<"err", "csv">>
    /\ "load" \in done

\* C9: after any train calls, spam_count is the number of processed emails
\* whose label is exactly "spam" and spam_words their lowered tokens in
\* order; ham_count and ham_words are those of all other emails; the counts
\* add up to the number of emails processed.
C9_TrainByExactLabel ==
    LET isSpam(e) == e[1] = <<"s","p","a","m">>
        isHam(e) == e[1] # <<"s","p","a","m">>
    IN  /\ classifier.spam_count = Len(SelectSeq(trained, isSpam))
        /\ classifier.ham_count = Len(SelectSeq(trained, isHam))
        /\ classifier.spam_count + classifier.ham_count = Len(trained)
        /\ classifier.spam_words = WordsOfEmails(trained, isSpam)
        /\ classifier.ham_words = WordsOfEmails(trained, isHam)

\* trained on a "spam" email, a "Spam" email and an email with blank content
C9_Witness ==
    /\ \E i \in 1..Len(trained) : trained[i][1] = <<"s","p","a","m">>
    /\ \E i \in 1..Len(trained) : trained[i][1] = <<"S","p","a","m">>
    /\ \E i \in 1..Len(trained) :
          trained[i][2] # Str0 /\ Tokens(trained[i][2]) = <<>>
    /\ classifier.spam_count = 1
    /\ classifier.ham_count = 2

\* C10: the loop is left only by a menu line that trims to "2" (success) or
\* by a read error (failure).  At end of input a read that does not fail
\* gives an empty line: at the menu it is an invalid choice and the menu
\* follows again, with input still at its end; at the message prompt it is
\* an empty message, and the menu follows.
C10_LoopExits ==
    [][/\ (pc \in {"menu", "msg"} /\ pc' = "exit") =>
            \/ pc = "menu" /\ exit' = <<"ok">> /\ trim(choice') = <<"2">>
            \/ exit' = <<"err", "stdin">>
       /\ (pc \in {"menu", "msg"} /\ exit' # <<>>) => pc' = "exit"
       /\ (pc = "menu" /\ eof /\ exit' # <<"err", "stdin">>) =>
            /\ pc' = "menu"
            /\ eof'
            /\ choice' = Str0
            /\ exit' = <<>>
            /\ out' = <<"menu", "invalid">>
       /\ (pc = "msg" /\ eof /\ exit' # <<"err", "stdin">>) =>
            /\ pc' = "menu"
            /\ eof'
            /\ exit' = <<>>
      ]_vars

\* input is at its end and the menu has answered with the invalid-choice line
C10_Witness ==
    /\ eof
    /\ pc = "menu"
    /\ exit = <<>>
    /\ choice = Str0
    /\ out = <<"menu", "invalid">>

====
